---- MODULE Spec2Model ----
(***************************************************************************)
(* Model of the automation and packaging artefacts of the pruna            *)
(* repository: the pre-commit hook set with its check-pruna-pro guard, the *)
(* "Code Quality Checks" workflow, the extras table of the manifest and    *)
(* the two tutorial notebooks.                                             *)
(***************************************************************************)
EXTENDS Integers, Sequences, FiniteSets, TLC

VARIABLES
    head,        \* committed tree: path -> file content or Absent
    index,       \* staged tree (git index)
    work,        \* working tree as the hooks see it: the staged content of
                 \* every tracked file (pre-commit stashes unstaged changes)
                 \* and the untracked files
    nops,        \* number of staging commands issued so far
    pc,          \* position of the pre-commit run
    ruffRes,     \* result of the ruff hook
    mypyRes,     \* result of the mypy hook
    guardRes,    \* result of the check-pruna-pro hook
    nameStatus,  \* output of git diff --cached --name-status seen by the guard
    exitCode,    \* exit status of the pre-commit run, -1 while there is none
    event,       \* the repository event being handled by the workflow
    jobState,    \* state of the linting job
    stepLog,     \* steps of the job started so far, in order
    stepOk,      \* steps of the job that succeeded
    extras,      \* extras requested for the installation
    resolved,    \* outcome of the installation: "no", "ok" or "conflict"
    installed,   \* packages installed
    active,      \* version constraints of stable-fast-pruna in force
    kernel       \* per notebook: the kernel running its cells

gitVars == <<head, index, work, nops>>
hookVars == <<pc, ruffRes, mypyRes, guardRes, nameStatus, exitCode>>
ciVars == <<event, jobState, stepLog, stepOk>>
pipVars == <<extras, resolved, installed, active>>
gateVars == <<gitVars, hookVars, ciVars>>
vars == <<head, index, work, nops, pc, ruffRes, mypyRes, guardRes, nameStatus,
          exitCode, event, jobState, stepLog, stepOk, extras, resolved,
          installed, active, kernel>>

---------------------------------------------------------------------------
(* Bounds *)

MaxOps == 3

---------------------------------------------------------------------------
(* Files: a path is a sequence of components, a content a sequence of      *)
(* lines, a line a sequence of characters.                                 *)

\* no file at the path (no content of the model is an empty file)
Absent == <<>>

Pruna == <<"p", "r", "u", "n", "a">>

\* the pattern handed to grep
Forbidden == Pruna \o <<"_", "p", "r", "o">>

LineClean == <<"#", " ">> \o Pruna

LinePro == <<"#", " ">> \o Forbidden

Contents == {<<LineClean>>, <<LinePro>>, <<LineClean, LinePro>>}

PathA == <<"src", "a.py">>

PathB == <<"src", "b.py">>

PathC == <<"docs", "src", "c.md">>

Paths == {PathA, PathB, PathC}

Trees == [Paths -> Contents \cup {Absent}]

\* grep: the line holds the pattern as a substring
LineMatches(line) ==
    \E i \in 1..(Len(line) - Len(Forbidden) + 1) :
        SubSeq(line, i, i + Len(Forbidden) - 1) = Forbidden

FileMatches(c) == \E k \in 1..Len(c) : LineMatches(c[k])

\* the hook's file filter ^src/: the path starts with the directory src
MatchesFiles(p) == Len(p) >= 2 /\ p[1] = "src"

---------------------------------------------------------------------------
(* git diff --cached --name-status *)

LinesOf(c) == {c[k] : k \in 1..Len(c)}

RECURSIVE SumBytes(_)
SumBytes(ls) ==
    IF ls = {} THEN 0
    ELSE LET l == CHOOSE x \in ls : TRUE
         IN  Len(l) + 1 + SumBytes(ls \ {l})

Max(a, b) == IF a >= b THEN a ELSE b

\* similarity index of a deleted and an added file, in percent
Score(old, new) ==
    (SumBytes(LinesOf(old) \cap LinesOf(new)) * 100)
        \div Max(SumBytes(LinesOf(old)), SumBytes(LinesOf(new)))

Deleted == {p \in Paths : head[p] # Absent /\ index[p] = Absent}

Added == {p \in Paths : head[p] = Absent /\ index[p] # Absent}

Modified ==
    {p \in Paths : head[p] # Absent /\ index[p] # Absent /\ head[p] # index[p]}

PairScore(m) == Score(head[m[1]], index[m[2]])

Candidates == {m \in Deleted \X Added : PairScore(m) >= 50}

\* the rename pairings git may report: pairs taken best first
RenameSets ==
    {M \in SUBSET Candidates :
        /\ \A m, n \in M : (m[1] = n[1] \/ m[2] = n[2]) => m = n
        /\ \A c \in Candidates \ M :
              \E m \in M : /\ (m[1] = c[1] \/ m[2] = c[2])
                           /\ PairScore(m) >= PairScore(c)}

\* one record per output line: the status letter, the second and last field
NameStatus(M) ==
    {[status |-> "R", f2 |-> m[1], last |-> m[2]] : m \in M}
    \cup {[status |-> "A", f2 |-> p, last |-> p] :
             p \in Added \ {m[2] : m \in M}}
    \cup {[status |-> "D", f2 |-> p, last |-> p] :
             p \in Deleted \ {m[1] : m \in M}}
    \cup {[status |-> "M", f2 |-> p, last |-> p] : p \in Modified}

---------------------------------------------------------------------------
(* The entry of check-pruna-pro *)

\* awk '$1 != "D" {print $2}'
AwkPaths(ns) == {e.f2 : e \in {x \in ns : x.status # "D"}}

\* grep -q 'pruna_pro' args: 0 on a match, else 2 on a missing file, else 1
GrepExit(args) ==
    IF \E p \in args : work[p] # Absent /\ FileMatches(work[p]) THEN 0
    ELSE IF \E p \in args : work[p] = Absent THEN 2
    ELSE 1

\* xargs: 0 when the command succeeded, 123 when it exited with 1 to 125
XargsExit(args) == IF GrepExit(args) = 0 THEN 0 ELSE 123

GuardExitInverted(ns) == IF XargsExit(AwkPaths(ns)) = 0 THEN 0 ELSE 1

\* ... && { echo 'Error: pruna_pro found'; exit 1; } || exit 0
GuardExit(ns) == IF XargsExit(AwkPaths(ns)) = 0 THEN 1 ELSE 0

\* the files pre-commit hands to the hooks: staged and not deleted (every
\* file of the model is a text file, as types: [text] asks)
StagedFiles == Added \cup Modified

\* files: '^src/': the hook runs when a staged file matches, and is skipped
\* otherwise; the entry does not read the file names it is handed
HookApplies == \E p \in StagedFiles : MatchesFiles(p)

---------------------------------------------------------------------------
(* The pre-commit run: the hooks of the configuration, in order *)

NoResult == "none"

\* the run fails when a hook failed; a skipped hook counts as passed
PreCommitExit(r, m, g) == IF "fail" \in {r, m, g} THEN 1 ELSE 0

---------------------------------------------------------------------------
(* The workflow *)

NoEvent == [kind |-> "none", branch |-> "none"]

EventKinds == {"push", "pull_request"}

Branches == {"main", "develop"}

\* on.pull_request.branches
TriggerBranches == {"main"}

TriggersAnyBranch(e) == e.kind = "pull_request"

\* on: pull_request: branches: [main]
Triggers(e) == e.kind = "pull_request" /\ e.branch \in TriggerBranches

StepsTypeCheckFirst ==
    << "checkout", "setup-python", "install-poetry", "configure-poetry",
       "ruff", "mypy", "install-deps", "remove-so", "pytest-style" >>

\* jobs.linting.steps
Steps ==
    << "checkout", "setup-python", "install-poetry", "configure-poetry",
       "ruff", "install-deps", "remove-so", "mypy", "pytest-style" >>

StepFailureContinues(last) == IF last THEN "failure" ELSE "running"

\* no step sets continue-on-error: a failing step ends the job
StepFailureState(last) == "failure"

---------------------------------------------------------------------------
(* The manifest: dependency table and extras *)

\* tool.poetry.dependencies, the entries that are not optional
RequiredDeps ==
    { "wget", "torch", "torchvision", "torchmetrics", "requests",
      "transformers", "pillow", "pytorch-lightning", "huggingface-hub",
      "jsonschema", "numpy", "setuptools", "packaging", "diffusers",
      "platformdirs", "torch_pruning", "python-dotenv", "ConfigSpace",
      "cython", "lago-python-client", "sentencepiece", "blobfile", "librosa",
      "openvino", "soundfile", "ipywidgets", "DeepCache", "colorama",
      "protobuf", "peft", "optuna", "trl", "opentelemetry-api",
      "opentelemetry-sdk", "opentelemetry-exporter-otlp", "codecarbon",
      "pynvml", "thop", "timm", "bitsandbytes", "optimum-quanto", "optimum",
      "ctranslate2", "whisper-s2t", "hqq", "auto-gptq", "torchao" }

\* auto-gptq carries markers = "sys_platform == 'linux'"
Platforms == {"linux", "darwin"}

RequiredOn(platform) ==
    {p \in RequiredDeps : p = "auto-gptq" => platform = "linux"}

OptionalDepsWithOrphan ==
    { "nexfort", "ruff", "onediff", "autoawq", "jupyterlab", "notebook",
      "pre-commit", "build", "twine", "pyc-wheel", "pytest-cov", "coverage",
      "pytest", "docutils", "xformers", "stable-fast-pruna",
      "numpydoc-validation", "mypy", "types-PyYAML", "sphinx" }

\* tool.poetry.dependencies, the entries with optional = true
OptionalDeps ==
    { "nexfort", "ruff", "onediff", "autoawq", "jupyterlab", "notebook",
      "pre-commit", "build", "twine", "pyc-wheel", "pytest-cov", "coverage",
      "pytest", "docutils", "xformers", "stable-fast-pruna",
      "numpydoc-validation", "mypy", "types-PyYAML" }

ExtraNames ==
    { "stable-fast", "stable-fast-cu11", "onediff", "autoawq", "full", "dev",
      "tests", "cpu" }

\* tool.poetry.extras
Extras ==
    [e \in ExtraNames |->
        CASE e = "stable-fast" -> {"xformers", "stable-fast-pruna"}
          [] e = "stable-fast-cu11" -> {"xformers", "stable-fast-pruna"}
          [] e = "onediff" -> {"onediff", "nexfort"}
          [] e = "autoawq" -> {"autoawq"}
          [] e = "full" -> {"autoawq", "xformers", "stable-fast-pruna",
                            "autoawq", "onediff", "nexfort"}
          [] e = "dev" -> {"jupyterlab", "notebook", "pre-commit", "build",
                           "twine", "pyc-wheel", "ruff",
                           "numpydoc-validation"}
          [] e = "tests" -> {"pytest", "pytest-cov", "coverage", "docutils",
                             "jupyterlab", "numpydoc-validation", "mypy",
                             "ruff", "types-PyYAML"}
          [] e = "cpu" -> {}]

StableFastConstraintsNoFull ==
    { [version |-> "1.0.6", markerExtras |-> {"stable-fast"}],
      [version |-> "1.0.6+torch251cu118",
       markerExtras |-> {"stable-fast-cu11"}] }

\* the two constraints of stable-fast-pruna, each with the extras its
\* marker names
StableFastConstraints ==
    { [version |-> "1.0.6", markerExtras |-> {"stable-fast", "full"}],
      [version |-> "1.0.6+torch251cu118",
       markerExtras |-> {"stable-fast-cu11"}] }

\* a marker extra == 'x' or ... holds when one of its extras is requested
MarkerHolds(c, sel) == c.markerExtras \cap sel # {}

\* the optional packages the requested extras select
Selected(sel) == UNION {Extras[e] : e \in sel}

\* the constraints of stable-fast-pruna in force for the requested extras
ActiveConstraints(sel) ==
    {c.version : c \in {x \in StableFastConstraints :
                            /\ "stable-fast-pruna" \in Selected(sel)
                            /\ MarkerHolds(x, sel)}}

---------------------------------------------------------------------------
(* The tutorial notebooks: the statements of the code cells, in order *)

Stmt(cell, op, target, uses, arg) ==
    [cell |-> cell, op |-> op, target |-> target, uses |-> uses, arg |-> arg]

NoName == "-"

\* !pip install pruna
InstallCell == << Stmt(1, "shell", NoName, {}, <<"pip install pruna">>) >>

\* asr_whisper, 1. Loading the ASR model
WhisperLoadCell ==
    << Stmt(2, "import", "torch", {}, <<>>),
       Stmt(2, "import", "AutoModelForSpeechSeq2Seq", {}, <<>>),
       Stmt(2, "assign", "device", {"torch"}, <<>>),
       Stmt(2, "assign", "torch_dtype", {"torch"}, <<>>),
       Stmt(2, "assign", "model_id", {}, <<>>),
       Stmt(2, "from_pretrained", "model",
            {"AutoModelForSpeechSeq2Seq", "model_id", "torch_dtype"}, <<>>),
       Stmt(2, "to", NoName, {"model", "device"}, <<>>) >>

\* asr_whisper, 2. Initializing the Smash Config
WhisperConfigCell ==
    << Stmt(3, "import", "SmashConfig", {}, <<>>),
       Stmt(3, "SmashConfig", "smash_config", {"SmashConfig"}, <<>>),
       Stmt(3, "add", NoName, {"smash_config", "model_id"},
            <<"smash_config", "processor">>),
       Stmt(3, "setitem", NoName, {"smash_config"},
            <<"smash_config", "compiler">>) >>

\* 3. Smashing the model: the cell is the same in both notebooks
SmashCell ==
    << Stmt(4, "import", "smash", {}, <<>>),
       Stmt(4, "smash", "smashed_model", {"smash", "model", "smash_config"},
            << <<"model", "model">>, <<"smash_config", "smash_config">> >>) >>

\* asr_whisper, 4. Preparing the Input
WhisperInputCell ==
    << Stmt(5, "import", "load_dataset", {}, <<>>),
       Stmt(5, "import", "AutoProcessor", {}, <<>>),
       Stmt(5, "assign", "processor", {"AutoProcessor", "model_id"}, <<>>),
       Stmt(5, "assign", "dataset", {"load_dataset"}, <<>>),
       Stmt(5, "assign", "sample", {"dataset"}, <<>>),
       Stmt(5, "assign", "input_features", {"processor", "sample"}, <<>>),
       Stmt(5, "assign", "input_features", {"input_features"}, <<>>) >>

\* asr_whisper, 5. Running the Model
WhisperRunCell ==
    << Stmt(6, "infer", "results", {"smashed_model", "input_features"},
            <<"smashed_model">>),
       Stmt(6, "decode", NoName, {"processor", "results"}, <<>>) >>

\* docs/tutorials/asr_whisper.ipynb, its code cells from top to bottom
WhisperNotebook ==
    InstallCell \o WhisperLoadCell \o WhisperConfigCell \o SmashCell
        \o WhisperInputCell \o WhisperRunCell

\* llms, 1. Loading the LLM
LlmsLoadCell ==
    << Stmt(2, "import", "AutoModelForCausalLM", {}, <<>>),
       Stmt(2, "import", "AutoTokenizer", {}, <<>>),
       Stmt(2, "assign", "model_id", {}, <<>>),
       Stmt(2, "from_pretrained", "model",
            {"AutoModelForCausalLM", "model_id"}, <<>>),
       Stmt(2, "assign", "text", {}, <<>>),
       Stmt(2, "assign", "tokenizer", {"AutoTokenizer", "model_id"}, <<>>),
       Stmt(2, "assign", "ins", {"tokenizer", "text"}, <<>>) >>

\* llms, 2. Initialize the SmashConfig
LlmsConfigCell ==
    << Stmt(3, "import", "SmashConfig", {}, <<>>),
       Stmt(3, "SmashConfig", "smash_config", {"SmashConfig"}, <<>>),
       Stmt(3, "add", NoName, {"smash_config", "model_id"},
            <<"smash_config", "tokenizer">>),
       Stmt(3, "add", NoName, {"smash_config"}, <<"smash_config", "data">>),
       Stmt(3, "setitem", NoName, {"smash_config"},
            <<"smash_config", "quantizer">>) >>

LlmsRunCellOnOriginal ==
    << Stmt(5, "infer", "generated", {"model", "ins"}, <<"model">>),
       Stmt(5, "decode", NoName, {"tokenizer", "generated"}, <<>>) >>

\* llms, 4. Running the Model
LlmsRunCell ==
    << Stmt(5, "infer", "generated", {"smashed_model", "ins"},
            <<"smashed_model">>),
       Stmt(5, "decode", NoName, {"tokenizer", "generated"}, <<>>) >>

\* the llms tutorial, its code cells from top to bottom
LlmsNotebook ==
    InstallCell \o LlmsLoadCell \o LlmsConfigCell \o SmashCell \o LlmsRunCell

Notebooks == {"asr_whisper", "llms"}

Program(nb) == IF nb = "asr_whisper" THEN WhisperNotebook ELSE LlmsNotebook

\* the names the notebooks bind
Names ==
    UNION {{Program(nb)[i].target : i \in 1..Len(Program(nb))} \cup
           UNION {Program(nb)[i].uses : i \in 1..Len(Program(nb))} :
           nb \in Notebooks} \ {NoName}

\* the values a kernel binds names to
Value(kind, opts) == [kind |-> kind, opts |-> opts]

Unbound == Value("unbound", {})

FreshKernel ==
    [pc |-> 1, env |-> [n \in Names |-> Unbound], calls |-> <<>>,
     error |-> FALSE]

Call(op, kwargs, kind, opts) ==
    [op |-> op, kwargs |-> kwargs, kind |-> kind, opts |-> opts]

Bind(env, name, v) == IF name = NoName THEN env ELSE [env EXCEPT ![name] = v]

\* a name that is read before it is bound, or a method the object lacks
Raises(k, st) ==
    \/ \E n \in st.uses : k.env[n].kind = "unbound"
    \/ st.op \in {"add", "setitem"} /\ k.env[st.arg[1]].kind # "config"

\* the kernel after running statement st
Exec(k, st) ==
    LET next == [k EXCEPT !.pc = k.pc + 1]
    IN  CASE Raises(k, st) -> [k EXCEPT !.error = TRUE]
          [] st.op = "import" ->
                [next EXCEPT !.env = Bind(k.env, st.target,
                                          Value("callable", {}))]
          [] st.op = "assign" ->
                [next EXCEPT !.env = Bind(k.env, st.target,
                                          Value("object", {}))]
          [] st.op = "from_pretrained" ->
                [next EXCEPT
                    !.env = Bind(k.env, st.target, Value("pretrained", {})),
                    !.calls = Append(k.calls,
                                Call("from_pretrained", {}, "callable", {}))]
          [] st.op = "SmashConfig" ->
                [next EXCEPT
                    !.env = Bind(k.env, st.target, Value("config", {})),
                    !.calls = Append(k.calls,
                                Call("SmashConfig", {}, "callable", {}))]
          [] st.op \in {"add", "setitem"} ->
                [next EXCEPT
                    !.env = Bind(k.env, st.arg[1],
                                 Value("config",
                                       k.env[st.arg[1]].opts
                                           \cup {st.arg[2]})),
                    !.calls = Append(k.calls,
                                Call(st.op, {}, "config", {st.arg[2]}))]
          [] st.op = "smash" ->
                LET kw == {st.arg[i][1] : i \in 1..Len(st.arg)}
                    byKw == [w \in kw |->
                                k.env[st.arg[CHOOSE i \in 1..Len(st.arg) :
                                                 st.arg[i][1] = w][2]]]
                IN  [next EXCEPT
                        !.env = Bind(k.env, st.target,
                                     Value("smashed", byKw["smash_config"].opts)),
                        !.calls = Append(k.calls,
                                    Call("smash", kw, byKw["model"].kind,
                                         byKw["smash_config"].opts))]
          [] st.op = "infer" ->
                [next EXCEPT
                    !.env = Bind(k.env, st.target, Value("object", {})),
                    !.calls = Append(k.calls,
                                Call("infer", {}, k.env[st.arg[1]].kind,
                                     k.env[st.arg[1]].opts))]
          [] OTHER -> next

---------------------------------------------------------------------------
(* Initial states *)

EmptyTree == [p \in Paths |-> Absent]

GitAt(tree) == head = tree /\ index = tree /\ work = tree /\ nops = 0

HooksIdle ==
    /\ pc = "staging"
    /\ ruffRes = NoResult
    /\ mypyRes = NoResult
    /\ guardRes = NoResult
    /\ nameStatus = {}
    /\ exitCode = -1

JobIdle == event = NoEvent /\ jobState = "idle" /\ stepLog = <<>> /\ stepOk = {}

PipIdle == extras = {} /\ resolved = "no" /\ installed = {} /\ active = {}

KernelsFresh == kernel = [nb \in Notebooks |-> FreshKernel]

\* a repository with any committed tree, nothing staged, no run under way
Init ==
    /\ \E tree \in Trees : GitAt(tree)
    /\ HooksIdle
    /\ JobIdle
    /\ PipIdle
    /\ KernelsFresh

\* an environment in which nothing of the package is installed yet
InitManifest ==
    /\ GitAt(EmptyTree)
    /\ HooksIdle
    /\ JobIdle
    /\ PipIdle
    /\ KernelsFresh

\* two fresh kernels, one per notebook
InitNotebooks ==
    /\ GitAt(EmptyTree)
    /\ HooksIdle
    /\ JobIdle
    /\ PipIdle
    /\ KernelsFresh

---------------------------------------------------------------------------
(* The developer's staging commands *)

CanStage == pc = "staging" /\ event = NoEvent /\ nops < MaxOps

\* write content c to p and git add p
GitAdd(p, c) ==
    /\ CanStage
    /\ c # index[p]
    /\ index' = [index EXCEPT ![p] = c]
    /\ work' = [work EXCEPT ![p] = c]
    /\ nops' = nops + 1
    /\ UNCHANGED <<pipVars, kernel, head, hookVars, ciVars>>

\* git rm p
GitRm(p) ==
    /\ CanStage
    /\ index[p] # Absent
    /\ index' = [index EXCEPT ![p] = Absent]
    /\ work' = [work EXCEPT ![p] = Absent]
    /\ nops' = nops + 1
    /\ UNCHANGED <<pipVars, kernel, head, hookVars, ciVars>>

\* git rm --cached p: the file stays in the working tree, untracked
GitRmCached(p) ==
    /\ CanStage
    /\ index[p] # Absent
    /\ index' = [index EXCEPT ![p] = Absent]
    /\ nops' = nops + 1
    /\ UNCHANGED <<pipVars, kernel, head, work, hookVars, ciVars>>

\* git mv p q
GitMv(p, q) ==
    /\ CanStage
    /\ index[p] # Absent
    /\ index[q] = Absent
    /\ work[q] = Absent
    /\ index' = [index EXCEPT ![q] = index[p], ![p] = Absent]
    /\ work' = [work EXCEPT ![q] = work[p], ![p] = Absent]
    /\ nops' = nops + 1
    /\ UNCHANGED <<pipVars, kernel, head, hookVars, ciVars>>

---------------------------------------------------------------------------
(* git commit: pre-commit runs the hooks one after the other *)

StartCommit ==
    /\ pc = "staging"
    /\ event = NoEvent
    /\ pc' = "ruff"
    /\ UNCHANGED <<pipVars, kernel, gitVars, ruffRes, mypyRes, guardRes, nameStatus, exitCode,
                   ciVars>>

RunRuffHook ==
    /\ pc = "ruff"
    /\ \E r \in {"pass", "fail"} : ruffRes' = r
    /\ pc' = "mypy"
    /\ UNCHANGED <<pipVars, kernel, gitVars, mypyRes, guardRes, nameStatus, exitCode, ciVars>>

RunMypyHook ==
    /\ pc = "mypy"
    /\ \E r \in {"pass", "fail"} : mypyRes' = r
    /\ pc' = "guard"
    /\ UNCHANGED <<pipVars, kernel, gitVars, ruffRes, guardRes, nameStatus, exitCode, ciVars>>

\* check-pruna-pro: skipped when no staged file matches its filter
RunGuardHook ==
    /\ pc = "guard"
    /\ IF HookApplies
       THEN \E M \in RenameSets :
               /\ nameStatus' = NameStatus(M)
               /\ guardRes' = IF GuardExit(NameStatus(M)) = 0
                              THEN "pass" ELSE "fail"
       ELSE /\ nameStatus' = {}
            /\ guardRes' = "skipped"
    /\ pc' = "exit"
    /\ UNCHANGED <<pipVars, kernel, gitVars, ruffRes, mypyRes, exitCode, ciVars>>

FinishPreCommit ==
    /\ pc = "exit"
    /\ exitCode' = PreCommitExit(ruffRes, mypyRes, guardRes)
    /\ pc' = "done"
    /\ UNCHANGED <<pipVars, kernel, gitVars, ruffRes, mypyRes, guardRes, nameStatus, ciVars>>

\* the run passed: the commit is made
Commit ==
    /\ pc = "done"
    /\ exitCode = 0
    /\ head' = index
    /\ pc' = "staging"
    /\ ruffRes' = NoResult
    /\ mypyRes' = NoResult
    /\ guardRes' = NoResult
    /\ nameStatus' = {}
    /\ exitCode' = -1
    /\ UNCHANGED <<pipVars, kernel, index, work, nops, ciVars>>

\* the run failed: the commit is blocked
Blocked ==
    /\ pc = "done"
    /\ exitCode = 1
    /\ pc' = "staging"
    /\ ruffRes' = NoResult
    /\ mypyRes' = NoResult
    /\ guardRes' = NoResult
    /\ nameStatus' = {}
    /\ exitCode' = -1
    /\ UNCHANGED <<pipVars, kernel, gitVars, ciVars>>

---------------------------------------------------------------------------
(* The workflow run *)

\* an event on the committed tree: a push to, or a pull request against,
\* branch b
RepositoryEvent(k, b) ==
    /\ pc = "staging"
    /\ index = head
    /\ event = NoEvent
    /\ event' = [kind |-> k, branch |-> b]
    /\ jobState' = IF Triggers([kind |-> k, branch |-> b])
                   THEN "running" ELSE "idle"
    /\ UNCHANGED <<pipVars, kernel, gitVars, hookVars, stepLog, stepOk>>

NextStep == Steps[Len(stepLog) + 1]

StepSucceeds ==
    /\ jobState = "running"
    /\ stepLog' = Append(stepLog, NextStep)
    /\ stepOk' = stepOk \cup {NextStep}
    /\ jobState' = IF Len(stepLog) + 1 = Len(Steps)
                   THEN "success" ELSE "running"
    /\ UNCHANGED <<pipVars, kernel, gitVars, hookVars, event>>

StepFails ==
    /\ jobState = "running"
    /\ stepLog' = Append(stepLog, NextStep)
    /\ jobState' = StepFailureState(Len(stepLog) + 1 = Len(Steps))
    /\ UNCHANGED <<pipVars, kernel, gitVars, hookVars, event, stepOk>>

\* the event has been handled
EventDone ==
    /\ event # NoEvent
    /\ jobState # "running"
    /\ event' = NoEvent
    /\ jobState' = "idle"
    /\ stepLog' = <<>>
    /\ stepOk' = {}
    /\ UNCHANGED <<pipVars, kernel, gitVars, hookVars>>

---------------------------------------------------------------------------
(* Installing the package with extras *)

\* the user names one more extra: pip install pruna[e, ...]
RequestExtra(e) ==
    /\ resolved = "no"
    /\ e \notin extras
    /\ extras' = extras \cup {e}
    /\ UNCHANGED <<gateVars, kernel, resolved, installed, active>>

\* the installer resolves the dependency table for the requested extras;
\* two constraints in force on one package cannot both be met
Install(platform) ==
    /\ resolved = "no"
    /\ active' = ActiveConstraints(extras)
    /\ IF Cardinality(ActiveConstraints(extras)) > 1
       THEN resolved' = "conflict" /\ installed' = {}
       ELSE resolved' = "ok"
            /\ installed' = RequiredOn(platform) \cup Selected(extras)
    /\ UNCHANGED <<gateVars, kernel, extras>>

\* back to an empty environment
Uninstall ==
    /\ resolved # "no"
    /\ extras' = {}
    /\ resolved' = "no"
    /\ installed' = {}
    /\ active' = {}
    /\ UNCHANGED <<gateVars, kernel>>

---------------------------------------------------------------------------
(* Running a notebook: the next statement of the next cell *)

Done(nb) == kernel[nb].pc > Len(Program(nb))

RunStatement(nb) ==
    /\ ~Done(nb)
    /\ ~kernel[nb].error
    /\ kernel' = [kernel EXCEPT
                     ![nb] = Exec(kernel[nb], Program(nb)[kernel[nb].pc])]
    /\ UNCHANGED <<gateVars, pipVars>>

---------------------------------------------------------------------------
(* Specifications *)

Next ==
    \/ \E p \in Paths, c \in Contents : GitAdd(p, c)
    \/ \E p \in Paths : GitRm(p)
    \/ \E p \in Paths : GitRmCached(p)
    \/ \E p, q \in Paths : GitMv(p, q)
    \/ StartCommit
    \/ RunRuffHook
    \/ RunMypyHook
    \/ RunGuardHook
    \/ FinishPreCommit
    \/ Commit
    \/ Blocked
    \/ \E k \in EventKinds, b \in Branches : RepositoryEvent(k, b)
    \/ StepSucceeds
    \/ StepFails
    \/ EventDone

\* the two gates: staging, the pre-commit run, the workflow run
Spec == Init /\ [][Next]_vars

NextManifest ==
    \/ \E e \in ExtraNames : RequestExtra(e)
    \/ \E platform \in Platforms : Install(platform)
    \/ Uninstall

\* installations of the package
SpecManifest == InitManifest /\ [][NextManifest]_vars

NextNotebooks == \E nb \in Notebooks : RunStatement(nb)

\* the two notebooks, each run from top to bottom in a kernel of its own
SpecNotebooks == InitNotebooks /\ [][NextNotebooks]_vars

---------------------------------------------------------------------------
(* Properties of the check-pruna-pro guard *)

GuardRan == guardRes \in {"pass", "fail"}

\* the lines git diff --cached marks with + for an entry
AddedLines(e) ==
    LinesOf(index[e.last])
        \ (IF e.status = "A" THEN {} ELSE LinesOf(head[e.f2]))

DiffHasForbidden ==
    \E e \in nameStatus :
        e.status # "D" /\ \E l \in AddedLines(e) : LineMatches(l)

\* the files the guard's grep reads and finds the string in
ScannedHits ==
    {p \in {e.f2 : e \in {x \in nameStatus : x.status # "D"}} :
        work[p] # Absent /\ FileMatches(work[p])}

\* C1 as stated: when the guard runs it rejects exactly when some staged
\* diff line contains pruna_pro, so a file holding the string only outside
\* its changed lines is accepted.
C1_DiffLineGuard == GuardRan => (guardRes = "fail" <=> DiffHasForbidden)

\* C1 amended: when the guard runs it rejects exactly when the whole content
\* of some file named in the second name-status field of a non-deleted
\* staged entry contains pruna_pro; hence it rejects every added or modified
\* file with an added line containing the string, whether or not a diff line
\* contains it is not what decides.
C1_WholeFileGuard ==
    GuardRan =>
        /\ guardRes = "fail" <=> ScannedHits # {}
        /\ \A e \in nameStatus :
              (e.status \in {"A", "M"}
                  /\ \E l \in AddedLines(e) : LineMatches(l))
              => guardRes = "fail"

\* a modified file is rejected for a line that is not part of the diff
C1_Witness ==
    /\ guardRes = "fail"
    /\ ~DiffHasForbidden
    /\ \E e \in nameStatus : e.status = "M" /\ FileMatches(index[e.f2])

\* C2 as stated: the guard is restricted to ^src/, so a rejection is always
\* due to an occurrence of pruna_pro in a file under src/, never to one in a
\* staged file outside src/.
C2_OnlySrcRejects ==
    guardRes = "fail" => \E p \in ScannedHits : MatchesFiles(p)

\* C8 as stated: when the guard runs it exits 1 exactly when the resulting
\* content of some staged entry that is not a deletion (added, modified,
\* renamed) contains pruna_pro; deletions are ignored.
C8_ResultingContent ==
    GuardRan =>
        (guardRes = "fail"
            <=> \E e \in nameStatus :
                    e.status # "D" /\ FileMatches(index[e.last]))

---------------------------------------------------------------------------
(* Properties of the two gates *)

Started(s) == \E i \in 1..Len(stepLog) : stepLog[i] = s

FailedSteps == {s \in {stepLog[i] : i \in 1..Len(stepLog)} : s \notin stepOk}

JobEnded == jobState \in {"success", "failure"}

PreCommitGate ==
    pc = "done" =>
        /\ exitCode \in {0, 1}
        /\ exitCode # 0 <=> "fail" \in {ruffRes, mypyRes, guardRes}

\* C3 as stated: the linting job fails exactly when one of the ruff, mypy or
\* pytest -m style steps fails, and the pre-commit run fails exactly when one
\* of its three hooks fails.
C3_ChecksOnly ==
    /\ JobEnded =>
          (jobState = "failure"
              <=> FailedSteps \cap {"ruff", "mypy", "pytest-style"} # {})
    /\ PreCommitGate

\* C3 amended: the linting job fails exactly when one of its steps fails,
\* the set-up steps (checkout, Python, Poetry, dependency installation,
\* removal of .so files) included, and succeeds when every step passed; the
\* pre-commit run fails exactly when one of its three hooks fails.
C3_AnyStep ==
    /\ JobEnded => (jobState = "failure" <=> FailedSteps # {})
    /\ jobState = "success" => \A i \in 1..Len(Steps) : Steps[i] \in stepOk
    /\ PreCommitGate

\* the job failed in a set-up step while every check step was passed or not run
C3_Witness == jobState = "failure" /\ FailedSteps = {"install-deps"}

Pos(s) == CHOOSE i \in 1..Len(stepLog) : stepLog[i] = s

\* the order the steps are required to keep
OrderPairs ==
    { <<"checkout", "setup-python">>, <<"setup-python", "install-poetry">>,
      <<"install-poetry", "configure-poetry">>, <<"configure-poetry", "ruff">>,
      <<"ruff", "mypy">>, <<"mypy", "pytest-style">>,
      <<"install-deps", "mypy">>, <<"remove-so", "mypy">> }

\* C4: the steps run in the order checkout, set-up, ruff, mypy, style test;
\* a step starts only after every earlier step succeeded, so nothing runs
\* after the first failure; mypy and the style test start only after the
\* dependency installation and the removal of .so files succeeded.
C4_StepOrder ==
    /\ \A pr \in OrderPairs :
          Started(pr[2]) => pr[1] \in stepOk /\ Pos(pr[1]) < Pos(pr[2])
    /\ \A i \in 1..(Len(stepLog) - 1) : stepLog[i] \in stepOk
    /\ \A i, j \in 1..Len(stepLog) : stepLog[i] = stepLog[j] => i = j
    /\ FailedSteps # {} => jobState = "failure"
    /\ stepOk \subseteq {stepLog[i] : i \in 1..Len(stepLog)}

\* the job was ended by a failing type check, after the installation
C4_Witness ==
    /\ jobState = "failure"
    /\ FailedSteps = {"mypy"}
    /\ "install-deps" \in stepOk

\* C6: the job is started by an event exactly when the event is a pull
\* request whose target branch is main.
C6_Trigger ==
    /\ event # NoEvent =>
          (jobState # "idle"
              <=> event.kind = "pull_request" /\ event.branch = "main")
    /\ event = NoEvent => jobState = "idle" /\ stepLog = <<>>

\* a pull request against main has started the job
C6_Witness ==
    /\ event = [kind |-> "pull_request", branch |-> "main"]
    /\ jobState = "running"
    /\ Started("checkout")

---------------------------------------------------------------------------
(* Properties of the notebooks *)

Rank(op) ==
    CASE op = "from_pretrained" -> 1
      [] op = "SmashConfig" -> 2
      [] op \in {"add", "setitem"} -> 3
      [] op = "smash" -> 4
      [] op = "infer" -> 5

CallsOf(nb, op) ==
    {i \in 1..Len(kernel[nb].calls) : kernel[nb].calls[i].op = op}

\* the options the notebook sets on its configuration, whenever it does
OptionsSet(nb) ==
    UNION {kernel[nb].calls[i].opts :
               i \in CallsOf(nb, "add") \cup CallsOf(nb, "setitem")}

\* C5: in both notebooks the calls come in the order load, SmashConfig,
\* option settings, smash, inference; smash is called once, with the keyword
\* arguments model and smash_config, on a loaded model and a configuration
\* that has every option the notebook sets; inference runs only on the
\* object smash returned.
C5_NotebookOrder ==
    \A nb \in Notebooks :
        LET calls == kernel[nb].calls
        IN  /\ ~kernel[nb].error
            /\ \A i, j \in 1..Len(calls) :
                  i < j => Rank(calls[i].op) <= Rank(calls[j].op)
            /\ Cardinality(CallsOf(nb, "smash")) <= 1
            /\ Cardinality(CallsOf(nb, "from_pretrained")) <= 1
            /\ Cardinality(CallsOf(nb, "SmashConfig")) <= 1
            /\ \A i \in CallsOf(nb, "smash") :
                  /\ calls[i].kwargs = {"model", "smash_config"}
                  /\ calls[i].kind = "pretrained"
                  /\ calls[i].opts = OptionsSet(nb)
                  /\ calls[i].opts # {}
            /\ \A i \in CallsOf(nb, "infer") : calls[i].kind = "smashed"
            /\ Done(nb) =>
                  /\ Cardinality(CallsOf(nb, "smash")) = 1
                  /\ CallsOf(nb, "infer") # {}

\* both notebooks have been run to the end
C5_Witness ==
    \A nb \in Notebooks : Done(nb) /\ CallsOf(nb, "infer") # {}

---------------------------------------------------------------------------
(* Properties of the manifest *)

\* C7: every package of an extras bundle is declared optional, every
\* optional dependency is in some bundle, and an installation without
\* extras installs no optional package.
C7_ExtrasDeclared ==
    /\ DOMAIN Extras = ExtraNames
    /\ \A e \in ExtraNames : Extras[e] \subseteq OptionalDeps
    /\ \A p \in OptionalDeps : \E e \in ExtraNames : p \in Extras[e]
    /\ resolved = "ok" =>
          /\ installed \cap OptionalDeps = Selected(extras)
          /\ extras = {} => installed \cap OptionalDeps = {}

\* installations without extras and with some
C7_Witness ==
    /\ resolved = "ok"
    /\ extras = {}
    /\ installed # {}

SelectsOld == extras \cap {"stable-fast", "full"} # {}

SelectsCu11 == "stable-fast-cu11" \in extras

====
